---- MODULE Spec2Model ----
(***************************************************************************)
(* ReadGuard: a proof-of-reading gate for pull requests.                   *)
(*                                                                         *)
(* State lives outside the process: the pull request's issue comments and  *)
(* the check runs of the repository.  Each invocation of the action runs   *)
(* run_generate_mode or run_verify_mode once, to completion.               *)
(*                                                                         *)
(* Specifications:                                                         *)
(*   Spec            one invocation at a time, each handler one step       *)
(*   SpecPush        Spec while commits are pushed to the pull request     *)
(*   SpecAnswerable  Spec with a generator that may name any answer        *)
(*   SpecRace        overlapping invocations, one GitHub API call a step   *)
(*   SpecDecode      extract_metadata on arbitrary text                    *)
(*   SpecCodec       create_hidden_metadata and extract_metadata together  *)
(*   SpecCommit      compute_hash on the stored and on the submitted side  *)
(*                                                                         *)
(* Texts are sequences of lexemes (strings).  A lexeme stands for a run of *)
(* characters that no pattern of the program splits: the regular           *)
(* expressions, str.strip, str.upper and json.loads below work lexeme by   *)
(* lexeme the way the Python code works character by character.            *)
(***************************************************************************)
EXTENDS Integers, Sequences, FiniteSets, TLC

\* ------------------------------------------------------------------------
\* Bounds of the model
\* ------------------------------------------------------------------------
MaxGenerate == 2
MaxUserComments == 2
MaxPush == 1
MaxInvocations == 3

\* ------------------------------------------------------------------------
\* Text primitives (Python str)
\* ------------------------------------------------------------------------
None == [t |-> "None", s |-> <<>>, kv |-> <<>>]

Whitespace == {" ", "\n"}

UpperOf == [a |-> "A", b |-> "B", c |-> "C", d |-> "D", o |-> "O", t |-> "T", u |-> "U"]

RECURSIVE lstrip(_)
lstrip(text) ==
  IF text # <<>> /\ Head(text) \in Whitespace THEN lstrip(Tail(text)) ELSE text

RECURSIVE rstrip(_)
rstrip(text) ==
  IF text # <<>> /\ text[Len(text)] \in Whitespace
  THEN rstrip(SubSeq(text, 1, Len(text) - 1))
  ELSE text

strip(text) == rstrip(lstrip(text))

upper(text) ==
  [i \in 1..Len(text) |-> IF text[i] \in DOMAIN UpperOf THEN UpperOf[text[i]] ELSE text[i]]

RECURSIVE Join(_)
Join(text) == IF text = <<>> THEN "" ELSE Head(text) \o Join(Tail(text))

\* ------------------------------------------------------------------------
\* JSON values (json.loads / json.dumps)
\* ------------------------------------------------------------------------
Q == "\""

JStr(text) == [t |-> "str", s |-> text, kv |-> <<>>]
JNum(text) == [t |-> "num", s |-> text, kv |-> <<>>]
JList(items) == [t |-> "list", s |-> <<>>, kv |-> [i \in 1..Len(items) |-> [k |-> <<>>, v |-> items[i]]]]
JDict(pairs) == [t |-> "dict", s |-> <<>>, kv |-> pairs]
KV(key, val) == [k |-> key, v |-> val]

Digits == {"0", "1", "7"}

DictHas(pairs, key) == \E i \in 1..Len(pairs) : pairs[i].k = key

\* the value under key; None when the key is absent (callers test DictHas
\* where the program would raise KeyError)
DictGet(pairs, key) ==
  IF DictHas(pairs, key)
  THEN pairs[CHOOSE i \in 1..Len(pairs) : pairs[i].k = key].v
  ELSE None

\* dict[key] = val: a repeated key keeps its place and takes the new value
DictSet(pairs, key, val) ==
  IF DictHas(pairs, key)
  THEN [i \in 1..Len(pairs) |-> IF pairs[i].k = key THEN KV(key, val) ELSE pairs[i]]
  ELSE Append(pairs, KV(key, val))

\* json.dumps with the default separators ", " and ": ".  Strings are written
\* between quotes as they are: the program dumps only hex strings and "quiz".
RECURSIVE JsonDumps(_)
RECURSIVE DumpItems(_)
RECURSIVE DumpPairs(_)
DumpItems(items) ==
  IF items = <<>> THEN <<>>
  ELSE JsonDumps(Head(items).v)
       \o (IF Len(items) > 1 THEN <<",", " ">> ELSE <<>>)
       \o DumpItems(Tail(items))

DumpPairs(pairs) ==
  IF pairs = <<>> THEN <<>>
  ELSE <<Q>> \o Head(pairs).k \o <<Q, ":", " ">> \o JsonDumps(Head(pairs).v)
       \o (IF Len(pairs) > 1 THEN <<",", " ">> ELSE <<>>)
       \o DumpPairs(Tail(pairs))

JsonDumps(val) ==
  CASE val.t = "str"  -> <<Q>> \o val.s \o <<Q>>
    [] val.t = "num"  -> val.s
    [] val.t = "None" -> <<"null">>
    [] val.t = "list" -> <<"[">> \o DumpItems(val.kv) \o <<"]">>
    [] val.t = "dict" -> <<"{">> \o DumpPairs(val.kv) \o <<"}">>

\* json.loads: a recursive-descent scanner.  A result is [ok, val, next,
\* raises]: next is the index after the value; ok = FALSE carries the
\* exception that json.loads raises.
ParseFail == [ok |-> FALSE, val |-> None, next |-> 0, raises |-> "JSONDecodeError"]
Parsed(val, next) == [ok |-> TRUE, val |-> val, next |-> next, raises |-> ""]

\* One lexeme for a run of "[" longer than the interpreter's recursion limit:
\* the scanner recurses once per "[" and raises RecursionError, which is no
\* JSONDecodeError, before it reaches the end of the run.
DeepNesting == "[[[[ ... [[[["

ParseOverflow == [ok |-> FALSE, val |-> None, next |-> 0, raises |-> "RecursionError"]

RECURSIVE SkipWs(_, _)
SkipWs(x, i) == IF i <= Len(x) /\ x[i] \in Whitespace THEN SkipWs(x, i + 1) ELSE i

\* index of the closing quote of the string that opens at i - 1, or 0
RECURSIVE CloseQuote(_, _)
CloseQuote(x, i) ==
  IF i > Len(x) \/ x[i] = "\n" THEN 0
  ELSE IF x[i] = Q THEN i
  ELSE CloseQuote(x, i + 1)

ParseString(x, i) ==
  LET j == CloseQuote(x, i + 1)
  IN  IF j = 0 THEN ParseFail ELSE Parsed(JStr(SubSeq(x, i + 1, j - 1)), j + 1)

RECURSIVE DigitsEnd(_, _)
DigitsEnd(x, i) == IF i <= Len(x) /\ x[i] \in Digits THEN DigitsEnd(x, i + 1) ELSE i

ParseNumber(x, i) ==
  LET j == IF x[i] = "0" THEN i + 1 ELSE DigitsEnd(x, i)
  IN  Parsed(JNum(SubSeq(x, i, j - 1)), j)

RECURSIVE ParseValue(_, _)
RECURSIVE ParseItems(_, _, _)
RECURSIVE ParsePairs(_, _, _)

\* i is at the first lexeme of an item of a list
ParseItems(x, i, acc) ==
  LET r == ParseValue(x, i)
      j == SkipWs(x, r.next)
  IN  IF ~r.ok THEN r
      ELSE IF j > Len(x) THEN ParseFail
      ELSE IF x[j] = "]" THEN Parsed(JList(Append(acc, r.val)), j + 1)
      ELSE IF x[j] = "," THEN ParseItems(x, SkipWs(x, j + 1), Append(acc, r.val))
      ELSE ParseFail

\* i is at the first lexeme of a key of an object
ParsePairs(x, i, acc) ==
  IF i > Len(x) \/ x[i] # Q THEN ParseFail
  ELSE
    LET key == ParseString(x, i)
        c == IF key.ok THEN SkipWs(x, key.next) ELSE 0
    IN  IF ~key.ok \/ c > Len(x) \/ x[c] # ":" THEN ParseFail
        ELSE
          LET r == ParseValue(x, SkipWs(x, c + 1))
              j == SkipWs(x, r.next)
              acc2 == DictSet(acc, key.val.s, r.val)
          IN  IF ~r.ok THEN r
              ELSE IF j > Len(x) THEN ParseFail
              ELSE IF x[j] = "}" THEN Parsed(JDict(acc2), j + 1)
              ELSE IF x[j] = "," THEN ParsePairs(x, SkipWs(x, j + 1), acc2)
              ELSE ParseFail

ParseValue(x, i) ==
  IF i > Len(x) THEN ParseFail
  ELSE IF x[i] = Q THEN ParseString(x, i)
  ELSE IF x[i] \in Digits THEN ParseNumber(x, i)
  ELSE IF x[i] = "null" THEN Parsed(None, i + 1)
  ELSE IF x[i] = DeepNesting THEN ParseOverflow
  ELSE IF x[i] = "[" THEN
    LET j == SkipWs(x, i + 1)
    IN  IF j <= Len(x) /\ x[j] = "]" THEN Parsed(JList(<<>>), j + 1)
        ELSE ParseItems(x, j, <<>>)
  ELSE IF x[i] = "{" THEN
    LET j == SkipWs(x, i + 1)
    IN  IF j <= Len(x) /\ x[j] = "}" THEN Parsed(JDict(<<>>), j + 1)
        ELSE ParsePairs(x, j, <<>>)
  ELSE ParseFail

\* [ok, val, raises]: the whole text must be one value between optional
\* whitespace
WholeText(text, r) ==
  IF ~r.ok THEN [ok |-> FALSE, val |-> None, raises |-> r.raises]
  ELSE IF SkipWs(text, r.next) > Len(text)
  THEN [ok |-> TRUE, val |-> r.val, raises |-> ""]
  ELSE [ok |-> FALSE, val |-> None, raises |-> "JSONDecodeError"]

JsonLoads(text) == WholeText(text, ParseValue(text, SkipWs(text, 1)))

\* Python truth value of a JSON value (None is JSON's null)
Truthy(val) ==
  CASE val.t = "None" -> FALSE
    [] val.t = "str"  -> val.s # <<>>
    [] val.t = "num"  -> val.s # <<"0">>
    [] val.t = "list" -> val.kv # <<>>
    [] val.t = "dict" -> val.kv # <<>>

\* str(val), as an f-string formats a value.  The repr of a list or a dict is
\* kept as one opaque lexeme per container around its items.
Str(val) ==
  CASE val.t = "None" -> <<"None">>
    [] val.t = "str"  -> val.s
    [] val.t = "num"  -> val.s
    [] val.t = "list" -> <<"repr[">> \o JsonDumps(val) \o <<"]">>
    [] val.t = "dict" -> <<"repr{">> \o JsonDumps(val) \o <<"}">>

\* ------------------------------------------------------------------------
\* main.py: commitment and hidden metadata
\* ------------------------------------------------------------------------
CHECK_NAME == "ReadGuard Verification"

\* hashlib.sha256(data).hexdigest(): one lexeme per distinct pre-image
sha256_hexdigest(data) == <<"sha256(" \o Join(data) \o ")">>

\* Faulty variant: the answer is hashed as it was written
compute_hash_verbatim(answer, salt) == sha256_hexdigest(answer \o <<":">> \o salt)

\* answer and salt are texts
compute_hash(answer, salt) ==
  LET normalized == upper(strip(answer))
      data == normalized \o <<":">> \o salt
  IN  sha256_hexdigest(data)

META_OPEN == "<!-- readguard_meta: "
META_CLOSE == " -->"

create_hidden_metadata(data) == <<META_OPEN>> \o JsonDumps(data) \o <<META_CLOSE>>

\* end of the shortest (.*?) that starts at i and is followed by " -->":
\* the index of that " -->", or 0 when a newline or the end comes first
RECURSIVE LazyEnd(_, _)
LazyEnd(text, i) ==
  IF i > Len(text) THEN 0
  ELSE IF text[i] = META_CLOSE THEN i
  ELSE IF text[i] = "\n" THEN 0
  ELSE LazyEnd(text, i + 1)

\* re.search(r'<!-- readguard_meta: (.*?) -->', text) from position i on:
\* [found, group], the leftmost match
RECURSIVE SearchMeta(_, _)
SearchMeta(text, i) ==
  IF i > Len(text) THEN [found |-> FALSE, group |-> <<>>]
  ELSE IF text[i] = META_OPEN /\ LazyEnd(text, i + 1) # 0
       THEN [found |-> TRUE, group |-> SubSeq(text, i + 1, LazyEnd(text, i + 1) - 1)]
       ELSE SearchMeta(text, i + 1)

\* an exception that leaves the function, in the place of its return value
Raised(exception) == [t |-> "raise", s |-> <<exception>>, kv |-> <<>>]

\* try: return json.loads(match.group(1)); except json.JSONDecodeError:
\* return None.  Any other exception leaves extract_metadata.
LoadsOrNone(loaded) ==
  IF loaded.ok THEN loaded.val
  ELSE IF loaded.raises = "JSONDecodeError" THEN None
  ELSE Raised(loaded.raises)

GroupOrNone(match) == IF match.found THEN LoadsOrNone(JsonLoads(match.group)) ELSE None

extract_metadata(text) == GroupOrNone(SearchMeta(text, 1))

\* re.match(r'/answer\s+([a-cA-C])', comment_body): [found, group]
AnswerLetters == {"a", "b", "c", "A", "B", "C"}

MatchAnswer(comment_body) ==
  IF /\ Len(comment_body) >= 3
     /\ comment_body[1] = "/answer"
     /\ comment_body[2] \in Whitespace
     /\ SkipWs(comment_body, 2) <= Len(comment_body)
     /\ comment_body[SkipWs(comment_body, 2)] \in AnswerLetters
  THEN [found |-> TRUE, group |-> <<comment_body[SkipWs(comment_body, 2)]>>]
  ELSE [found |-> FALSE, group |-> <<>>]

\* ------------------------------------------------------------------------
\* llm_client.py: the question generator
\* ------------------------------------------------------------------------
\* A reply of the provider: the API call raised, or it returned a content text.
ApiError == [error |-> TRUE, content |-> <<>>]
ApiContent(text) == [error |-> FALSE, content |-> text]

\* _generate_openai / _generate_gemini: json.loads(content), None on any exception
LoadsOrNoneOnException(loaded) == IF loaded.ok THEN loaded.val ELSE None

generate_question(reply) ==
  IF reply.error THEN None ELSE LoadsOrNoneOnException(JsonLoads(reply.content))

\* ------------------------------------------------------------------------
\* State
\* ------------------------------------------------------------------------
VARIABLES
  comments,    \* issue comments of the pull request, oldest first: [user, body]
  check_runs,  \* check runs created on the repository, oldest first
  head,        \* pr.head.sha: the head revision of the pull request
  event,       \* issue_comment events not yet handled: <<>> or <<body>>
  outcome,     \* how the invocation for the latest trigger ended
  minted,      \* history: the challenges run_generate_mode posted
  inflight,    \* invocations that run step by step: their locals and position
  probe        \* a function under study: its arguments and its result

vars == <<comments, check_runs, head, event, outcome, minted, inflight, probe>>

\* no function is under study
NoProbe == [stage |-> "none"]

NoOutcome ==
  [mode |-> "none", exit |-> "return", level |-> "info", log |-> "",
   answer |-> <<>>, quiz |-> 0, posted |-> 0, marked |-> 0]

Ended(mode, exit, level, log, answer, quiz, n) ==
  [mode |-> mode, exit |-> exit, level |-> level, log |-> log,
   answer |-> answer, quiz |-> quiz, posted |-> n, marked |-> n]

\* Faulty variant: the bot keeps one comment and rewrites it
edit_comment(cs, body) ==
  IF cs # <<>> /\ cs[Len(cs)].user = "bot"
  THEN [cs EXCEPT ![Len(cs)].body = body]
  ELSE Append(cs, [user |-> "bot", body |-> body])

\* GithubClient.post_comment: the action's token posts as the bot
post_comment(cs, body) == Append(cs, [user |-> "bot", body |-> body])

\* Faulty variant: the latest check run of that name is updated in place
update_check_run(runs, name, head_sha, status, conclusion, title) ==
  IF runs = <<>>
  THEN <<[name |-> name, head_sha |-> head_sha, status |-> status,
          conclusion |-> conclusion, title |-> title]>>
  ELSE [runs EXCEPT ![Len(runs)] = [name |-> name, head_sha |-> head_sha,
                                    status |-> status, conclusion |-> conclusion,
                                    title |-> title]]

\* GithubClient.create_check_run
create_check_run(runs, name, head_sha, status, conclusion, title) ==
  Append(runs, [name |-> name, head_sha |-> head_sha, status |-> status,
                conclusion |-> conclusion, title |-> title])

\* GithubClient.get_bot_comments: every issue comment, whoever wrote it,
\* oldest first
get_bot_comments(cs) == cs

Init ==
  /\ comments = <<>>
  /\ check_runs = <<>>
  /\ head = 1
  /\ event = <<>>
  /\ outcome = NoOutcome
  /\ minted = <<>>
  /\ inflight = <<>>
  /\ probe = NoProbe

\* ------------------------------------------------------------------------
\* main.py: run_generate_mode
\* ------------------------------------------------------------------------
\* secrets.token_hex(16): 128 random bits, as hex.  The n-th draw is a
\* lexeme of its own: draws do not repeat and nobody wrote them before.
token_hex(n) == <<"5f" \o ToString(n)>>

\* PullRequest.get_files: [filename, patch], patch = None when absent
File(filename, patch) == [filename |-> filename, patch |-> patch]

RECURSIVE DiffText(_)
DiffText(files) ==
  IF files = <<>> THEN <<>>
  ELSE (IF Truthy(Head(files).patch)
        THEN <<"File: ">> \o Head(files).filename \o <<"\n">>
             \o Head(files).patch.s \o <<"\n", "\n">>
        ELSE <<>>)
       \o DiffText(Tail(files))

\* q_data[key] on a value: "" when it evaluates, else the exception it raises
Subscript(val, key) ==
  IF val.t # "dict" THEN "TypeError"
  ELSE IF ~DictHas(val.kv, key) THEN "KeyError"
  ELSE ""

\* Faulty variant: the question and the options are read with dict.get
GenerateRaisesOnAnswerOnly(q_data) ==
  IF Subscript(q_data, <<"correct_answer">>) # ""
    THEN Subscript(q_data, <<"correct_answer">>)
  ELSE IF DictGet(q_data.kv, <<"correct_answer">>).t # "str" THEN "AttributeError"
  ELSE ""

\* The exception that steps 3 and 4 raise on q_data before anything is
\* posted, "" when they raise none
GenerateRaises(q_data) ==
  IF Subscript(q_data, <<"correct_answer">>) # ""
    THEN Subscript(q_data, <<"correct_answer">>)
  ELSE IF DictGet(q_data.kv, <<"correct_answer">>).t # "str" THEN "AttributeError"
  ELSE IF ~DictHas(q_data.kv, <<"question">>) THEN "KeyError"
  ELSE IF ~DictHas(q_data.kv, <<"options">>) THEN "KeyError"
  ELSE LET options == DictGet(q_data.kv, <<"options">>)
       IN  IF Subscript(options, <<"A">>) # "" THEN Subscript(options, <<"A">>)
           ELSE IF Subscript(options, <<"B">>) # "" THEN Subscript(options, <<"B">>)
           ELSE Subscript(options, <<"C">>)

\* Faulty variant: the record is written without its mode tag
QuizMetadataUntagged(salt, correct_hash) ==
  JDict(<<KV(<<"salt">>, JStr(salt)), KV(<<"hash">>, JStr(correct_hash))>>)

QuizMetadata(salt, correct_hash) ==
  JDict(<<KV(<<"salt">>, JStr(salt)),
          KV(<<"hash">>, JStr(correct_hash)),
          KV(<<"mode">>, JStr(<<"quiz">>))>>)

\* the f-string of step 4
QuizBody(q_data, metadata) ==
  LET options == DictGet(q_data.kv, <<"options">>).kv
  IN  <<"\n", "## ReadGuard Verification", "\n", "    ", "\n",
        "**Proof-of-Reading Required**", "\n",
        "The following question has been generated based on the changes in this PR.",
        "\n", "\n", "**">>
      \o Str(DictGet(q_data.kv, <<"question">>)) \o <<"**", "\n", "\n">>
      \o <<"- **A)** ">> \o Str(DictGet(options, <<"A">>)) \o <<"\n">>
      \o <<"- **B)** ">> \o Str(DictGet(options, <<"B">>)) \o <<"\n">>
      \o <<"- **C)** ">> \o Str(DictGet(options, <<"C">>)) \o <<"\n", "\n">>
      \o <<"Reply with ", "/answer", " ", "A", ", ", "/answer", " ", "B",
           ", or ", "/answer", " ", "C", " to unlock the merge.", "\n", "\n">>
      \o create_hidden_metadata(metadata) \o <<"\n">>

MaxDiffChars == 10000

Truncate(text, n) == SubSeq(text, 1, IF Len(text) < n THEN Len(text) ELSE n)

run_generate_mode(files, q_data) ==
  /\ Len(minted) < MaxGenerate
  /\ LET diff_text == DiffText(files)
         salt == token_hex(Len(minted) + 1)
         correct_answer == DictGet(q_data.kv, <<"correct_answer">>).s
         correct_hash == compute_hash(correct_answer, salt)
         metadata == QuizMetadata(salt, correct_hash)
         body == QuizBody(q_data, metadata)
     IN  IF Truncate(diff_text, MaxDiffChars) = <<>> THEN
           /\ outcome' = Ended("generate", "return", "info",
                               "No diff found or no changes. Exiting.", <<>>, 0, 0)
           /\ UNCHANGED <<comments, check_runs, minted>>
         ELSE IF ~Truthy(q_data) THEN
           /\ outcome' = Ended("generate", "exit1", "error",
                               "Failed to generate question.", <<>>, 0, 0)
           /\ UNCHANGED <<comments, check_runs, minted>>
         ELSE IF GenerateRaises(q_data) # "" THEN
           /\ outcome' = Ended("generate", "exception", "traceback",
                               GenerateRaises(q_data), <<>>, 0, 0)
           /\ UNCHANGED <<comments, check_runs, minted>>
         ELSE
           /\ comments' = post_comment(comments, body)
           /\ check_runs' = create_check_run(check_runs, CHECK_NAME, head,
                              "completed", "action_required", "ReadGuard Quiz")
           /\ minted' = Append(minted, [at |-> Len(comments) + 1,
                                        correct |-> correct_answer,
                                        head_sha |-> head])
           /\ outcome' = Ended("generate", "return", "info",
                               "Quiz posted and check run created.", <<>>, 0, 1)
  /\ UNCHANGED <<head, event, inflight, probe>>

\* ------------------------------------------------------------------------
\* main.py: run_verify_mode
\* ------------------------------------------------------------------------
IsQuiz(meta) ==
  /\ DictHas(meta.kv, <<"mode">>)
  /\ DictGet(meta.kv, <<"mode">>) = JStr(<<"quiz">>)

\* One pass of the loop body on comment i, whose metadata is meta
RECURSIVE ScanComments(_, _)
ScanStep(cs, i, meta) ==
  IF meta.t = "raise" THEN [raises |-> meta.s[1], index |-> 0, metadata |-> None]
  ELSE IF ~Truthy(meta) THEN ScanComments(cs, i - 1)
  ELSE IF meta.t # "dict" THEN [raises |-> "AttributeError", index |-> 0, metadata |-> None]
  ELSE IF IsQuiz(meta) THEN [raises |-> "", index |-> i, metadata |-> meta]
  ELSE ScanComments(cs, i - 1)

\* The loop over reversed(list(comments)), from comment i down to the oldest:
\* [raises, index, metadata]; index = 0 and metadata = None when the loop
\* ends without a break
ScanComments(cs, i) ==
  IF i = 0 THEN [raises |-> "", index |-> 0, metadata |-> None]
  ELSE ScanStep(cs, i, extract_metadata(cs[i].body))

\* the quiz record that a run of run_verify_mode would select now, or None
OpenChallenge(cs) == ScanComments(get_bot_comments(cs), Len(cs)).metadata

CorrectBody(user_answer) ==
  <<"Correct! The answer was **">> \o user_answer \o <<"**. verification successful.">>

\* Faulty variant: the rejection reuses the codec for a status record
IncorrectBodyWithRecord ==
  <<"Incorrect. Please try again.", "\n">>
  \o create_hidden_metadata(JDict(<<KV(<<"mode">>, JStr(<<"quiz">>)),
                                    KV(<<"status">>, JStr(<<"failure">>))>>))

IncorrectBody == <<"Incorrect. Please try again.">>

\* Steps 4 and 5: the comparison and what it posts
VerifyHash(user_answer, index, expected_hash, computed_hash) ==
  IF JStr(computed_hash) = expected_hash THEN
    /\ comments' = post_comment(comments, CorrectBody(user_answer))
    /\ check_runs' = create_check_run(check_runs, CHECK_NAME, head,
                       "completed", "success", "ReadGuard Verified")
    /\ outcome' = Ended("verify", "return", "info", "Answer Correct!",
                        user_answer, index, 1)
  ELSE
    /\ comments' = post_comment(comments, IncorrectBody)
    /\ check_runs' = create_check_run(check_runs, CHECK_NAME, head,
                       "completed", "failure", "ReadGuard Failed")
    /\ outcome' = Ended("verify", "return", "info", "Answer Incorrect.",
                        user_answer, index, 1)

\* Faulty variant: a reply without any quiz comment is answered as a wrong one
VerifyFoundLenient(user_answer, found) ==
  IF found.raises # "" THEN
    /\ outcome' = Ended("verify", "exception", "traceback", found.raises,
                        user_answer, 0, 0)
    /\ UNCHANGED <<comments, check_runs>>
  ELSE VerifyHash(user_answer, found.index,
                  DictGet(found.metadata.kv, <<"hash">>),
                  compute_hash(user_answer,
                               Str(DictGet(found.metadata.kv, <<"salt">>))))

\* Steps 2 and 3, after the loop: found is what the loop left
VerifyFound(user_answer, found) ==
  IF found.raises # "" THEN
    /\ outcome' = Ended("verify", "exception", "traceback", found.raises,
                        user_answer, 0, 0)
    /\ UNCHANGED <<comments, check_runs>>
  ELSE IF ~Truthy(found.metadata) THEN
    /\ outcome' = Ended("verify", "exit1", "error",
                        "Could not find a ReadGuard quiz comment.",
                        user_answer, 0, 0)
    /\ UNCHANGED <<comments, check_runs>>
  ELSE IF ~DictHas(found.metadata.kv, <<"hash">>)
          \/ ~DictHas(found.metadata.kv, <<"salt">>) THEN
    /\ outcome' = Ended("verify", "exception", "traceback", "KeyError",
                        user_answer, found.index, 0)
    /\ UNCHANGED <<comments, check_runs>>
  ELSE VerifyHash(user_answer, found.index,
                  DictGet(found.metadata.kv, <<"hash">>),
                  compute_hash(user_answer,
                               Str(DictGet(found.metadata.kv, <<"salt">>))))

\* Step 1: the reply pattern
VerifyMatch(match) ==
  IF ~match.found THEN
    /\ outcome' = Ended("verify", "exit0", "info",
                        "Comment does not contain a valid answer format. Ignoring.",
                        <<>>, 0, 0)
    /\ UNCHANGED <<comments, check_runs>>
  ELSE VerifyFound(upper(match.group),
                   ScanComments(get_bot_comments(comments), Len(comments)))

run_verify_mode ==
  /\ event # <<>>
  /\ event' = Tail(event)
  /\ VerifyMatch(MatchAnswer(strip(Head(event))))
  /\ UNCHANGED <<head, minted, inflight, probe>>

\* ------------------------------------------------------------------------
\* The environment: people comment on the pull request and push to it
\* ------------------------------------------------------------------------
UserCount == Cardinality({i \in 1..Len(comments) : comments[i].user = "user"})

\* Somebody comments; GitHub stores the comment and raises issue_comment
PostUserComment(body) ==
  /\ event = <<>>
  /\ UserCount < MaxUserComments
  /\ comments' = Append(comments, [user |-> "user", body |-> body])
  /\ event' = Append(event, body)
  /\ outcome' = NoOutcome
  /\ UNCHANGED <<check_runs, head, minted, inflight, probe>>

\* A push moves the head of the pull request to a new commit
Push ==
  /\ head <= MaxPush
  /\ head' = head + 1
  /\ UNCHANGED <<comments, check_runs, event, outcome, minted, inflight, probe>>

\* ------------------------------------------------------------------------
\* Inputs
\* ------------------------------------------------------------------------
Labels == {<<"A">>, <<"B">>, <<"C">>}

ForgedQuiz(label) ==
  <<"fyi", " ">>
  \o create_hidden_metadata(QuizMetadata(<<"ff">>, compute_hash(label, <<"ff">>)))

\* hidden metadata whose JSON is well formed but is no object
NotARecord == <<"see", " ", META_OPEN, "[", "1", "]", META_CLOSE>>

UserBodies ==
  { <<"/answer", " ", "A">>,
    <<" ", "/answer", " ", " ", "b", " ", "\n">>,
    <<"looks good, thanks">>,
    <<"/answer", " ", "a", "b", "o", "u", "t", " ", "the cache">>,
    ForgedQuiz(<<"A">>),
    NotARecord }

Question(correct_answer) ==
  JDict(<<KV(<<"question">>, JStr(<<"What does the new timeout do?">>)),
          KV(<<"options">>, JDict(<<KV(<<"A">>, JStr(<<"Retries">>)),
                                    KV(<<"B">>, JStr(<<"Aborts">>)),
                                    KV(<<"C">>, JStr(<<"Nothing">>))>>)),
          KV(<<"correct_answer">>, JStr(correct_answer))>>)

Without(dict, key) ==
  JDict(SelectSeq(dict.kv, LAMBDA pair : pair.k # key))

OptionsWithout(dict, key) ==
  JDict(DictSet(dict.kv, <<"options">>,
                Without(DictGet(dict.kv, <<"options">>), key)))

GeneratorAnswers == {<<"A">>, <<"b">>}

WellFormedReplies == {ApiContent(JsonDumps(Question(a))) : a \in GeneratorAnswers}

MalformedReplies ==
  { ApiError,
    ApiContent(<<"Sorry, I cannot help with that.">>),
    ApiContent(JsonDumps(Without(Question(<<"A">>), <<"question">>))),
    ApiContent(JsonDumps(Without(Question(<<"A">>), <<"correct_answer">>))),
    ApiContent(JsonDumps(OptionsWithout(Question(<<"A">>), <<"B">>))) }

LLMReplies == WellFormedReplies \cup MalformedReplies

Diffs ==
  { <<File(<<"logo.png">>, None)>>,
    <<File(<<"logo.png">>, None), File(<<"app.py">>, JStr(<<"+timeout = 30">>))>> }

\* what llm_client.generate_question returns to run_generate_mode; the
\* provider is called only when there is a diff to ask about
Responses == {generate_question(reply) : reply \in LLMReplies}

ResponsesFor(files) == IF DiffText(files) = <<>> THEN {None} ELSE Responses

Next ==
  \/ \E files \in Diffs : \E q_data \in ResponsesFor(files) : run_generate_mode(files, q_data)
  \/ run_verify_mode
  \/ \E body \in UserBodies : PostUserComment(body)

Spec == Init /\ [][Next]_vars

\* ------------------------------------------------------------------------
\* Vocabulary of the claims
\* ------------------------------------------------------------------------
\* The reply pattern of the protocol: after trimming, the command token,
\* whitespace, and one label, with nothing after it
ExactReply(text) ==
  /\ Len(strip(text)) >= 3
  /\ strip(text)[1] = "/answer"
  /\ strip(text)[Len(strip(text))] \in AnswerLetters
  /\ \A i \in 2..(Len(strip(text)) - 1) : strip(text)[i] \in Whitespace

ReplyLabel(text) == upper(<<strip(text)[Len(strip(text))]>>)

QuizRecord(meta) == meta.t = "dict" /\ IsQuiz(meta)

DecodesToQuiz(body) == QuizRecord(extract_metadata(body))

\* a quiz record that carries a commitment
IsChallenge(meta) ==
  /\ meta.t = "dict"
  /\ IsQuiz(meta)
  /\ DictHas(meta.kv, <<"salt">>)
  /\ DictHas(meta.kv, <<"hash">>)

QuizIndexes(cs) == {i \in 1..Len(cs) : DecodesToQuiz(cs[i].body)}

\* index of the newest comment that decodes to a quiz record, 0 when none does
Newest(indexes) ==
  IF indexes = {} THEN 0 ELSE CHOOSE i \in indexes : \A j \in indexes : j <= i

NewestQuiz(cs) == Newest(QuizIndexes(cs))

\* verify(claimed, salt, hash) of the commitment scheme, on a Challenge record
Commits(meta, label) ==
  JStr(compute_hash(label, Str(DictGet(meta.kv, <<"salt">>))))
    = DictGet(meta.kv, <<"hash">>)

Latest(runs) == runs[Len(runs)]

LatestConclusion(runs) == IF runs = <<>> THEN "unset" ELSE Latest(runs).conclusion

\* a step of run_verify_mode: only it consumes the pending event
VerifyStep == event # <<>> /\ event' = <<>>

\* a step of run_generate_mode: every branch of it records its mode
GenerateStep == outcome'.mode = "generate"

FatalOutcome(o) == o.exit \in {"exit1", "exception"} /\ o.level \in {"error", "traceback"}

\* ------------------------------------------------------------------------
\* C1  No false success: every success marker is emitted by a reply whose
\* label equals the correct answer the question generator returned for a
\* Challenge that run_generate_mode minted; text of other parties in the
\* history never leads to a success marker.
\* ------------------------------------------------------------------------
NoFalseSuccess ==
  (outcome.mode = "verify" /\ LatestConclusion(check_runs) = "success"
     /\ outcome.marked = 1)
  => \E k \in 1..Len(minted) :
       /\ minted[k].at = outcome.quiz
       /\ upper(strip(minted[k].correct)) = outcome.answer

\* ------------------------------------------------------------------------
\* C2  VERIFIED is terminal: once the latest marker is success, a reply
\* changes nothing and emits no marker; only a fresh generate leaves VERIFIED.
\* ------------------------------------------------------------------------
VerifiedIsTerminal ==
  [][(LatestConclusion(check_runs) = "success" /\ VerifyStep)
       => (comments' = comments /\ check_runs' = check_runs)]_vars

\* ------------------------------------------------------------------------
\* C7  The reply pattern is exact: a comment whose trimmed body is not the
\* command token followed by exactly one label is no reply attempt and
\* yields no marker.
\* ------------------------------------------------------------------------
ReplyPatternIsExact ==
  [][(VerifyStep /\ ~ExactReply(Head(event)))
       => (check_runs' = check_runs /\ comments' = comments)]_vars

Contains(text, part) ==
  \E i \in 1..(Len(text) - Len(part) + 1) : SubSeq(text, i, i + Len(part) - 1) = part

MetaAt(cs, i) == extract_metadata(cs[i].body)

\* the comment whose issue_comment event is pending: the newest user comment
UserIndexes(cs) == {i \in 1..Len(cs) : cs[i].user = "user"}

PendingAt(cs) == CHOOSE i \in UserIndexes(cs) : \A j \in UserIndexes(cs) : j <= i

\* ------------------------------------------------------------------------
\* C3  Retry: a wrong reply does not invalidate the Challenge.  When the
\* latest Challenge has been followed only by replies, all of them wrong, and
\* by the answers to them, the next wrong reply emits a failure marker and
\* leaves the same record selected; a reply with the correct label is
\* checked against that same salt and hash and ends with latest = success.
\* ------------------------------------------------------------------------
RetryScenario(quiz, meta) ==
  /\ IsChallenge(meta)
  /\ ExactReply(Head(event))
  /\ \A j \in (quiz + 1)..Len(comments) :
       comments[j].user = "user" =>
         /\ ExactReply(comments[j].body)
         /\ j # PendingAt(comments) => ~Commits(meta, ReplyLabel(comments[j].body))

RetryStep(quiz, meta) ==
  IF Commits(meta, ReplyLabel(Head(event)))
  THEN /\ Len(check_runs') = Len(check_runs) + 1
       /\ LatestConclusion(check_runs') = "success"
       /\ outcome'.quiz = quiz
  ELSE /\ Len(check_runs') = Len(check_runs) + 1
       /\ LatestConclusion(check_runs') = "failure"
       /\ outcome'.quiz = quiz
       /\ ScanComments(get_bot_comments(comments'), Len(comments')).index = quiz
       /\ OpenChallenge(comments') = meta

RetryOn(quiz, meta) == RetryScenario(quiz, meta) => RetryStep(quiz, meta)

RetryOnNewest(quiz) == quiz # 0 => RetryOn(quiz, MetaAt(comments, quiz))

WrongReplyKeepsChallenge ==
  [][VerifyStep => RetryOnNewest(NewestQuiz(comments))]_vars

\* generate, a wrong reply, then the correct reply to the same Challenge
RetryThenVerified ==
  /\ Len(check_runs) >= 3
  /\ check_runs[Len(check_runs) - 2].conclusion = "action_required"
  /\ check_runs[Len(check_runs) - 1].conclusion = "failure"
  /\ check_runs[Len(check_runs)].conclusion = "success"
  /\ minted # <<>>
  /\ outcome.quiz = minted[Len(minted)].at

\* ------------------------------------------------------------------------
\* C4  Outcome of one reply: a reply that matches the pattern, with an open
\* Challenge in the history, posts exactly one comment and emits exactly one
\* completed marker: success with a confirmation naming the label when the
\* label's commitment under the Challenge's salt equals the stored hash,
\* failure with a rejection inviting retry otherwise.
\* ------------------------------------------------------------------------
OneCommentOneMarker ==
  /\ Len(comments') = Len(comments) + 1
  /\ SubSeq(comments', 1, Len(comments)) = comments
  /\ Len(check_runs') = Len(check_runs) + 1
  /\ SubSeq(check_runs', 1, Len(check_runs)) = check_runs
  /\ Latest(check_runs').status = "completed"
  /\ IF Commits(MetaAt(comments, NewestQuiz(comments)), ReplyLabel(Head(event)))
     THEN /\ Latest(check_runs').conclusion = "success"
          /\ Contains(comments'[Len(comments')].body, ReplyLabel(Head(event)))
          /\ Contains(comments'[Len(comments')].body, <<"Correct! The answer was **">>)
     ELSE /\ Latest(check_runs').conclusion = "failure"
          /\ comments'[Len(comments')].body = <<"Incorrect. Please try again.">>

OutcomeOfOneReply ==
  [][(/\ VerifyStep
      /\ ExactReply(Head(event))
      /\ NewestQuiz(comments) # 0
      /\ IsChallenge(MetaAt(comments, NewestQuiz(comments))))
       => OneCommentOneMarker]_vars

\* The same outcome holds of every run whose loop reaches the Challenge, that
\* is, when no newer comment makes the scan raise
OutcomeOfOneReplyWhenScanned ==
  [][(/\ VerifyStep
      /\ ExactReply(Head(event))
      /\ NewestQuiz(comments) # 0
      /\ IsChallenge(MetaAt(comments, NewestQuiz(comments)))
      /\ ScanComments(get_bot_comments(comments), Len(comments)).raises = "")
       => OneCommentOneMarker]_vars

\* ------------------------------------------------------------------------
\* C5  Reply with no open Challenge: a reply that matches the pattern while
\* no comment of the history decodes to a quiz record ends in an error the
\* operator sees, posts no comment and emits no marker, and its outcome
\* differs from the silent no-op of a body that does not match.
\* ------------------------------------------------------------------------
SilentNoOp(o) == o.exit = "exit0" /\ o.level = "info"

ReplyWithoutChallenge ==
  [][(/\ VerifyStep
      /\ MatchAnswer(strip(Head(event))).found
      /\ QuizIndexes(comments) = {})
       => (/\ comments' = comments
           /\ check_runs' = check_runs
           /\ FatalOutcome(outcome')
           /\ ~SilentNoOp(outcome'))]_vars

ReplyFoundNoChallenge ==
  /\ outcome.mode = "verify"
  /\ outcome.exit = "exit1"
  /\ outcome.log = "Could not find a ReadGuard quiz comment."
  /\ outcome.answer # <<>>
  /\ QuizIndexes(comments) = {}
  /\ comments # <<>>

\* ------------------------------------------------------------------------
\* C6  Unrelated conversation: a body that does not match the reply pattern
\* causes no transition, no marker, no posted comment and no error, in every
\* state, with or without a Challenge in the history.
\* ------------------------------------------------------------------------
UnrelatedConversation ==
  [][(VerifyStep /\ ~ExactReply(Head(event)))
       => (/\ comments' = comments
           /\ check_runs' = check_runs
           /\ SilentNoOp(outcome'))]_vars

\* The same frame holds of every body that the pattern test of the program
\* rejects
UnrelatedWhenRejected ==
  [][(VerifyStep /\ ~MatchAnswer(strip(Head(event))).found)
       => (/\ comments' = comments
           /\ check_runs' = check_runs
           /\ SilentNoOp(outcome'))]_vars

\* ------------------------------------------------------------------------
\* C8  Question-generation failure leaves the gate unset: when the generator
\* returns nothing, or a response that lacks the question, one of the
\* options A, B, C, or the correct answer, generate posts no comment, emits
\* no marker and ends in a fatal error.
\* ------------------------------------------------------------------------
WellFormed(q_data) ==
  /\ q_data.t = "dict"
  /\ DictHas(q_data.kv, <<"question">>)
  /\ DictHas(q_data.kv, <<"options">>)
  /\ DictGet(q_data.kv, <<"options">>).t = "dict"
  /\ \A label \in Labels : DictHas(DictGet(q_data.kv, <<"options">>).kv, label)
  /\ DictHas(q_data.kv, <<"correct_answer">>)
  /\ DictGet(q_data.kv, <<"correct_answer">>).t = "str"

GenerationFailureLeavesGateUnset ==
  [][\A files \in Diffs : \A q_data \in Responses :
       (/\ GenerateStep
        /\ DiffText(files) # <<>>
        /\ ~WellFormed(q_data)
        /\ run_generate_mode(files, q_data))
       => (/\ comments' = comments
           /\ check_runs' = check_runs
           /\ FatalOutcome(outcome'))]_vars

\* a malformed response made generate raise after a Challenge was open
GenerationFailed ==
  /\ outcome.mode = "generate"
  /\ outcome.exit = "exception"
  /\ outcome.log = "KeyError"
  /\ LatestConclusion(check_runs) = "action_required"

\* ------------------------------------------------------------------------
\* C9  generate reaches PENDING from any state: with a diff and a well-formed
\* response, generate appends exactly one comment that holds the question,
\* the three options and the hidden record {salt, hash, mode: "quiz"} with
\* hash = commit(correct answer, salt) for a salt no earlier comment holds,
\* and then exactly one completed marker with conclusion action_required.
\* ------------------------------------------------------------------------
ChallengeRecord(salt, correct_answer) ==
  JDict(<<KV(<<"salt">>, JStr(salt)),
          KV(<<"hash">>, JStr(compute_hash(correct_answer, salt))),
          KV(<<"mode">>, JStr(<<"quiz">>))>>)

PendingReached(q_data) ==
  /\ Len(comments') = Len(comments) + 1
  /\ SubSeq(comments', 1, Len(comments)) = comments
  /\ Contains(comments'[Len(comments')].body, DictGet(q_data.kv, <<"question">>).s)
  /\ \A label \in Labels :
       Contains(comments'[Len(comments')].body,
                DictGet(DictGet(q_data.kv, <<"options">>).kv, label).s)
  /\ \E n \in 1..MaxGenerate :
       /\ Contains(comments'[Len(comments')].body,
                   <<META_OPEN>>
                   \o JsonDumps(ChallengeRecord(token_hex(n),
                                  DictGet(q_data.kv, <<"correct_answer">>).s))
                   \o <<META_CLOSE>>)
       /\ \A i \in 1..Len(comments) : ~Contains(comments[i].body, token_hex(n))
  /\ Len(check_runs') = Len(check_runs) + 1
  /\ SubSeq(check_runs', 1, Len(check_runs)) = check_runs
  /\ Latest(check_runs').status = "completed"
  /\ Latest(check_runs').conclusion = "action_required"

GenerateReachesPending ==
  [][\A files \in Diffs : \A q_data \in Responses :
       (/\ GenerateStep
        /\ DiffText(files) # <<>>
        /\ WellFormed(q_data)
        /\ run_generate_mode(files, q_data))
       => PendingReached(q_data)]_vars

\* generate ran in VERIFIED: the marker before the latest one is success
PendingAfterVerified ==
  /\ outcome.mode = "generate"
  /\ outcome.marked = 1
  /\ Len(check_runs) >= 2
  /\ check_runs[Len(check_runs) - 1].conclusion = "success"
  /\ LatestConclusion(check_runs) = "action_required"

\* ------------------------------------------------------------------------
\* C10  Latest Challenge wins: after any sequence of generate, replies and
\* other comments, a reply is verified against the record of the newest
\* comment that decodes to a quiz record, whatever newer or older comments
\* without a quiz record hold.
\* ------------------------------------------------------------------------
LatestChallengeSelected ==
  [][(VerifyStep /\ ExactReply(Head(event)) /\ NewestQuiz(comments) # 0)
       => outcome'.quiz = NewestQuiz(comments)]_vars

\* What does hold: a run that selects a record selects the newest one, never
\* an earlier Challenge, and its verdict is the one that record gives
NoEarlierChallengeSelected ==
  (outcome.mode = "verify" /\ outcome.quiz # 0)
  => /\ outcome.quiz = NewestQuiz(comments)
     /\ outcome.marked = 1 =>
          (LatestConclusion(check_runs) = "success"
             <=> Commits(MetaAt(comments, outcome.quiz), outcome.answer))

\* ------------------------------------------------------------------------
\* C11  History scanning is never fatal: whatever the comments of the
\* history hold (no metadata, malformed metadata, metadata that is no
\* object, an object with an unknown or missing mode), the scan of a reply
\* invocation treats them as no quiz record and goes on; no run of
\* run_verify_mode ends in an uncaught exception.
\* ------------------------------------------------------------------------
ScanNeverFatal == outcome.mode = "verify" => outcome.exit # "exception"

\* ------------------------------------------------------------------------
\* extract_metadata on arbitrary text: the text is put together from parts,
\* then decoded once
\* ------------------------------------------------------------------------
MaxParts == 3

ModeOnly == JDict(<<KV(<<"mode">>, JStr(<<"quiz">>))>>)

TextParts ==
  { <<"some text">>,
    <<"\n">>,
    <<"<!-- readguard_">>,
    <<META_OPEN>>,
    <<META_CLOSE>>,
    create_hidden_metadata(ModeOnly),
    <<META_OPEN, "1", META_CLOSE>>,
    <<META_OPEN, "{", Q, "mode", META_CLOSE>>,
    <<META_OPEN, DeepNesting, META_CLOSE>> }

InitDecode ==
  /\ comments = <<>>
  /\ check_runs = <<>>
  /\ head = 1
  /\ event = <<>>
  /\ outcome = NoOutcome
  /\ minted = <<>>
  /\ inflight = <<>>
  /\ probe = [stage |-> "text", text |-> <<>>, parts |-> 0, result |-> None]

AppendPart(part) ==
  /\ probe.stage = "text"
  /\ probe.parts < MaxParts
  /\ probe' = [probe EXCEPT !.text = @ \o part, !.parts = @ + 1]
  /\ UNCHANGED <<comments, check_runs, head, event, outcome, minted, inflight>>

CallExtractMetadata ==
  /\ probe.stage = "text"
  /\ probe' = [probe EXCEPT !.stage = "decoded", !.result = extract_metadata(probe.text)]
  /\ UNCHANGED <<comments, check_runs, head, event, outcome, minted, inflight>>

NextDecode ==
  \/ \E part \in TextParts : AppendPart(part)
  \/ CallExtractMetadata

SpecDecode == InitDecode /\ [][NextDecode]_vars

\* ------------------------------------------------------------------------
\* C12  decode is total: for every text (no marker, several markers, a
\* truncated or partial delimiter, content between the delimiters that does
\* not parse) extract_metadata returns the parsed record of the first marker
\* or null, and never raises.
\* ------------------------------------------------------------------------
DecodeIsTotal == probe.stage = "decoded" => probe.result.t # "raise"

\* Without a run of brackets deeper than the recursion limit no text makes
\* extract_metadata raise, and a text without both delimiters decodes to null
DecodeIsTotalOnShallowText ==
  (probe.stage = "decoded" /\ ~Contains(probe.text, <<DeepNesting>>))
  => /\ probe.result.t # "raise"
     /\ (~Contains(probe.text, <<META_OPEN>>) \/ ~Contains(probe.text, <<META_CLOSE>>))
          => probe.result = None

\* ------------------------------------------------------------------------
\* The codec on Challenge records: a record is built as run_generate_mode
\* builds it, encoded alone or inside the comment of step 4, and decoded
\* ------------------------------------------------------------------------
MaxSalts == 4

WithQuestion(text) == JDict(DictSet(Question(<<"A">>).kv, <<"question">>, JStr(text)))

WithOptionC(text) ==
  JDict(DictSet(Question(<<"A">>).kv, <<"options">>,
                JDict(DictSet(DictGet(Question(<<"A">>).kv, <<"options">>).kv,
                              <<"C">>, JStr(text)))))

\* what the question generator may write into the visible part
Quizzes ==
  { Question(<<"A">>),
    WithQuestion(<<"What closes a comment, ", META_CLOSE, "?">>),
    WithQuestion(<<"What follows ", META_OPEN, "?">>),
    WithOptionC(<<"It writes ">> \o create_hidden_metadata(ModeOnly)),
    WithQuestion(<<"What does ">> \o create_hidden_metadata(JDict(<<>>)) \o <<" hide?">>) }

InitCodec ==
  /\ comments = <<>>
  /\ check_runs = <<>>
  /\ head = 1
  /\ event = <<>>
  /\ outcome = NoOutcome
  /\ minted = <<>>
  /\ inflight = <<>>
  /\ probe = [stage |-> "start", record |-> None, text |-> <<>>, result |-> None]

ChooseRecord(n, label) ==
  /\ probe.stage = "start"
  /\ probe' = [probe EXCEPT
                 !.stage = "record",
                 !.record = QuizMetadata(token_hex(n), compute_hash(label, token_hex(n)))]
  /\ UNCHANGED <<comments, check_runs, head, event, outcome, minted, inflight>>

Encode ==
  /\ probe.stage = "record"
  /\ probe' = [probe EXCEPT !.stage = "encoded",
                            !.text = create_hidden_metadata(probe.record)]
  /\ UNCHANGED <<comments, check_runs, head, event, outcome, minted, inflight>>

Embed(q_data) ==
  /\ probe.stage = "record"
  /\ probe' = [probe EXCEPT !.stage = "embedded",
                            !.text = QuizBody(q_data, probe.record)]
  /\ UNCHANGED <<comments, check_runs, head, event, outcome, minted, inflight>>

Decode ==
  /\ probe.stage \in {"encoded", "embedded"}
  /\ probe' = [probe EXCEPT
                 !.stage = IF probe.stage = "encoded" THEN "decoded" ELSE "decoded in comment",
                 !.result = extract_metadata(probe.text)]
  /\ UNCHANGED <<comments, check_runs, head, event, outcome, minted, inflight>>

NextCodec ==
  \/ \E n \in 1..MaxSalts : \E label \in Labels : ChooseRecord(n, label)
  \/ Encode
  \/ \E q_data \in Quizzes : Embed(q_data)
  \/ Decode

SpecCodec == InitCodec /\ [][NextCodec]_vars

\* ------------------------------------------------------------------------
\* C13  Codec round trip: for every valid Challenge record R = {salt, hash,
\* mode: "quiz"}, decode(encode(R)) = R, also when the encoded snippet stands
\* at the end of the comment that generate posts, after the question and the
\* option texts.
\* ------------------------------------------------------------------------
CodecRoundTrip ==
  probe.stage \in {"decoded", "decoded in comment"} => probe.result = probe.record

\* The snippet alone always decodes to its record
SnippetRoundTrip == probe.stage = "decoded" => probe.result = probe.record

\* Inside the comment it does whenever the visible text, up to the snippet,
\* holds no complete marker of its own
VisibleText(text) == SubSeq(text, 1, Len(text) - Len(create_hidden_metadata(probe.record)) - 1)

CommentRoundTripOnPlainText ==
  (probe.stage = "decoded in comment" /\ ~SearchMeta(VisibleText(probe.text), 1).found)
  => probe.result = probe.record

\* ------------------------------------------------------------------------
\* The commitment: compute_hash at its two call sites, the stored side in
\* run_generate_mode and the submitted side in run_verify_mode
\* ------------------------------------------------------------------------
Spellings ==
  { <<"A">>, <<"B">>, <<"C">>, <<"a">>, <<"b">>, <<"c">>,
    <<" ", "B", " ">>, <<"c", "\n">> }

LabelOf(answer) == upper(strip(answer))

InitCommit ==
  /\ comments = <<>>
  /\ check_runs = <<>>
  /\ head = 1
  /\ event = <<>>
  /\ outcome = NoOutcome
  /\ minted = <<>>
  /\ inflight = <<>>
  /\ probe = [stage |-> "start", stored |-> <<>>, salt |-> <<>>, hash |-> <<>>,
              claimed |-> <<>>, verdict |-> FALSE]

\* main.py:75-76
Commit(correct_answer, n) ==
  /\ probe.stage = "start"
  /\ probe' = [probe EXCEPT !.stage = "committed",
                            !.stored = correct_answer,
                            !.salt = token_hex(n),
                            !.hash = compute_hash(correct_answer, token_hex(n))]
  /\ UNCHANGED <<comments, check_runs, head, event, outcome, minted, inflight>>

\* main.py:132, 158-162
Verify(answer) ==
  /\ probe.stage = "committed"
  /\ probe' = [probe EXCEPT !.stage = "verified",
                            !.claimed = answer,
                            !.verdict = (compute_hash(upper(answer), probe.salt) = probe.hash)]
  /\ UNCHANGED <<comments, check_runs, head, event, outcome, minted, inflight>>

NextCommit ==
  \/ \E correct_answer \in Spellings : \E n \in 1..MaxSalts : Commit(correct_answer, n)
  \/ \E answer \in Spellings : Verify(answer)

SpecCommit == InitCommit /\ [][NextCommit]_vars

\* ------------------------------------------------------------------------
\* C14  Commitment soundness and completeness: for all labels L of A, B, C
\* and all salts S, verify(L, S, commit(L, S)) is true and verify(L', S,
\* commit(L, S)) is false for every other label L'; both sides are trimmed
\* and uppercased before hashing, so "b" and " B " commit to what "B" does.
\* ------------------------------------------------------------------------
CommitmentSoundAndComplete ==
  probe.stage = "verified"
  => (probe.verdict <=> LabelOf(probe.claimed) = LabelOf(probe.stored))

\* a reply spelled differently from the stored answer is accepted
OtherSpellingAccepted ==
  /\ probe.stage = "verified"
  /\ probe.verdict
  /\ probe.stored = <<"b">>
  /\ probe.claimed = <<" ", "B", " ">>

\* ------------------------------------------------------------------------
\* C15  Markers are append-only and never intermediate: every check run has
\* the name "ReadGuard Verification", status completed and a conclusion of
\* action_required, success or failure; a step changes the gate only by
\* creating a new check run, and no step modifies or removes an earlier one.
\* ------------------------------------------------------------------------
CompletedMarker(run) ==
  /\ run.name = "ReadGuard Verification"
  /\ run.status = "completed"
  /\ run.conclusion \in {"action_required", "success", "failure"}

MarkersAppendOnly ==
  [][/\ Len(check_runs') >= Len(check_runs)
     /\ SubSeq(check_runs', 1, Len(check_runs)) = check_runs
     /\ \A i \in 1..Len(check_runs') : CompletedMarker(check_runs'[i])]_vars

\* all three conclusions stand in the history, the older ones under newer ones
EveryConclusionEmitted ==
  {check_runs[i].conclusion : i \in 1..Len(check_runs)}
    = {"action_required", "success", "failure"}

\* ------------------------------------------------------------------------
\* C16  Answer secrecy: the comment that generate posts does not tell which
\* of A, B, C is correct.  An observer who reads the comment with its hidden
\* record and evaluates the commitment on any label cannot single out the
\* correct answer before a correct reply is posted.
\* ------------------------------------------------------------------------
\* the labels that the observer finds consistent with the posted record
ObserverCandidates(body) ==
  {label \in Labels : Commits(extract_metadata(body), label)}

AnswerSecret ==
  \A k \in 1..Len(minted) :
    ObserverCandidates(comments[minted[k].at].body) # {LabelOf(minted[k].correct)}

\* ------------------------------------------------------------------------
\* Invocations that overlap.  GitHub starts one runner per event and the
\* runners share nothing but the pull request: each call of the GitHub API
\* is one step, and the steps of different invocations interleave freely.
\* An invocation keeps its locals in inflight; a finished one stays there
\* with pc = "done".
\* ------------------------------------------------------------------------
Invocation(mode, pc, exit) ==
  [mode |-> mode, pc |-> pc, exit |-> exit, body |-> <<>>, head_sha |-> 0,
   answer |-> <<>>, quiz |-> 0, text |-> <<>>, conclusion |-> "",
   correct |-> <<>>, posted_at |-> 0, marked_at |-> 0]

Generating(runs) == {i \in 1..Len(runs) : runs[i].mode = "generate"}

\* run_generate_mode up to step 4: the pull request and its files are read,
\* the question generator is called and the comment is composed
GenerateCompose(files, q_data, salt) ==
  IF Truncate(DiffText(files), MaxDiffChars) = <<>> THEN
    Invocation("generate", "done", "return")
  ELSE IF ~Truthy(q_data) THEN Invocation("generate", "done", "exit1")
  ELSE IF GenerateRaises(q_data) # "" THEN Invocation("generate", "done", "exception")
  ELSE [Invocation("generate", "post", "") EXCEPT
          !.head_sha = head,
          !.correct = DictGet(q_data.kv, <<"correct_answer">>).s,
          !.text = QuizBody(q_data,
                     QuizMetadata(salt,
                       compute_hash(DictGet(q_data.kv, <<"correct_answer">>).s, salt))),
          !.conclusion = "action_required"]

StartGenerate(files, q_data) ==
  /\ Len(inflight) < MaxInvocations
  /\ Cardinality(Generating(inflight)) < MaxGenerate
  /\ inflight' = Append(inflight,
                   GenerateCompose(files, q_data, token_hex(Len(inflight) + 1)))
  /\ UNCHANGED <<comments, check_runs, head, event, outcome, minted, probe>>

\* gh_client.post_comment(body) of either mode
PostStep(p) ==
  /\ inflight[p].pc = "post"
  /\ comments' = post_comment(comments, inflight[p].text)
  /\ inflight' = [inflight EXCEPT ![p].pc = "mark", ![p].posted_at = Len(comments) + 1]
  /\ minted' = IF inflight[p].mode = "generate"
               THEN Append(minted, [at |-> Len(comments) + 1,
                                    correct |-> inflight[p].correct,
                                    head_sha |-> inflight[p].head_sha])
               ELSE minted
  /\ UNCHANGED <<check_runs, head, event, outcome, probe>>

\* gh_client.create_check_run(...) of either mode, the last call of the run
MarkStep(p) ==
  /\ inflight[p].pc = "mark"
  /\ check_runs' = create_check_run(check_runs, CHECK_NAME, inflight[p].head_sha,
                     "completed", inflight[p].conclusion,
                     CASE inflight[p].conclusion = "action_required" -> "ReadGuard Quiz"
                       [] inflight[p].conclusion = "success" -> "ReadGuard Verified"
                       [] inflight[p].conclusion = "failure" -> "ReadGuard Failed")
  /\ inflight' = [inflight EXCEPT ![p].pc = "done", ![p].exit = "return",
                                  ![p].marked_at = Len(check_runs) + 1]
  /\ UNCHANGED <<comments, head, event, outcome, minted, probe>>

\* Somebody comments; the issue_comment event waits for its runner
CommentEvent(body) ==
  /\ Len(inflight) < MaxInvocations
  /\ UserCount < MaxUserComments
  /\ comments' = Append(comments, [user |-> "user", body |-> body])
  /\ inflight' = Append(inflight, [Invocation("verify", "init", "") EXCEPT !.body = body])
  /\ UNCHANGED <<check_runs, head, event, outcome, minted, probe>>

\* GithubClient.__init__ fetches the pull request; step 1 matches the body
VerifyInitMatch(p, match) ==
  IF ~match.found
  THEN [inflight EXCEPT ![p].pc = "done", ![p].exit = "exit0"]
  ELSE [inflight EXCEPT ![p].pc = "read", ![p].head_sha = head,
                        ![p].answer = upper(match.group)]

VerifyInit(p) ==
  /\ inflight[p].mode = "verify"
  /\ inflight[p].pc = "init"
  /\ inflight' = VerifyInitMatch(p, MatchAnswer(strip(inflight[p].body)))
  /\ UNCHANGED <<comments, check_runs, head, event, outcome, minted, probe>>

\* Steps 2 to 4 up to the first write: the history is read and scanned, the
\* hashes are compared
VerifyReadFound(p, found) ==
  IF found.raises # "" THEN [inflight EXCEPT ![p].pc = "done", ![p].exit = "exception"]
  ELSE IF ~Truthy(found.metadata) THEN [inflight EXCEPT ![p].pc = "done", ![p].exit = "exit1"]
  ELSE IF ~DictHas(found.metadata.kv, <<"hash">>)
          \/ ~DictHas(found.metadata.kv, <<"salt">>)
       THEN [inflight EXCEPT ![p].pc = "done", ![p].exit = "exception"]
  ELSE IF JStr(compute_hash(inflight[p].answer, Str(DictGet(found.metadata.kv, <<"salt">>))))
            = DictGet(found.metadata.kv, <<"hash">>)
       THEN [inflight EXCEPT ![p].pc = "post", ![p].quiz = found.index,
                             ![p].text = CorrectBody(inflight[p].answer),
                             ![p].conclusion = "success"]
       ELSE [inflight EXCEPT ![p].pc = "post", ![p].quiz = found.index,
                             ![p].text = IncorrectBody,
                             ![p].conclusion = "failure"]

VerifyRead(p) ==
  /\ inflight[p].pc = "read"
  /\ inflight' = VerifyReadFound(p, ScanComments(get_bot_comments(comments), Len(comments)))
  /\ UNCHANGED <<comments, check_runs, head, event, outcome, minted, probe>>

RaceBodies ==
  { <<"/answer", " ", "A">>,
    <<" ", "/answer", " ", " ", "b", " ", "\n">> }

RaceDiffs == { <<File(<<"app.py">>, JStr(<<"+timeout = 30">>))>> }

RaceResponses == {generate_question(ApiContent(JsonDumps(Question(<<"A">>))))}

NextRace ==
  \/ \E files \in RaceDiffs : \E q_data \in RaceResponses : StartGenerate(files, q_data)
  \/ \E body \in RaceBodies : CommentEvent(body)
  \/ \E p \in 1..Len(inflight) : VerifyInit(p)
  \/ \E p \in 1..Len(inflight) : VerifyRead(p)
  \/ \E p \in 1..Len(inflight) : PostStep(p)
  \/ \E p \in 1..Len(inflight) : MarkStep(p)

SpecRace == Init /\ [][NextRace]_vars

\* ------------------------------------------------------------------------
\* C17  Racing replies are well defined: when reply invocations overlap,
\* under any interleaving of their steps (read history, post comment, create
\* marker) every comment and every marker they wrote stands in the history
\* as written, none is lost or altered, and the latest marker is the one of
\* the invocation that created its marker last.
\* ------------------------------------------------------------------------
Posted(runs) == {p \in 1..Len(runs) : runs[p].posted_at # 0}

Marked(runs) == {p \in 1..Len(runs) : runs[p].marked_at # 0}

RacingRepliesWellDefined ==
  /\ \A p \in Posted(inflight) :
       /\ inflight[p].posted_at <= Len(comments)
       /\ comments[inflight[p].posted_at] = [user |-> "bot", body |-> inflight[p].text]
  /\ \A p \in Marked(inflight) :
       /\ inflight[p].marked_at <= Len(check_runs)
       /\ check_runs[inflight[p].marked_at].conclusion = inflight[p].conclusion
       /\ CompletedMarker(check_runs[inflight[p].marked_at])
  /\ \A p \in Posted(inflight) : \A q \in Posted(inflight) :
       inflight[p].posted_at = inflight[q].posted_at => p = q
  /\ \A p \in Marked(inflight) : \A q \in Marked(inflight) :
       inflight[p].marked_at = inflight[q].marked_at => p = q
  /\ Len(comments) = UserCount + Cardinality(Posted(inflight))
  /\ Len(check_runs) = Cardinality(Marked(inflight))
  /\ \A p \in Marked(inflight) :
       (\A q \in Marked(inflight) : inflight[q].marked_at <= inflight[p].marked_at)
       => LatestConclusion(check_runs) = inflight[p].conclusion

\* two replies overlapped: the one that posted first created its marker last,
\* and their verdicts differ
RepliesCrossed ==
  \E p \in 1..Len(inflight) : \E q \in 1..Len(inflight) :
    /\ inflight[p].mode = "verify" /\ inflight[q].mode = "verify"
    /\ inflight[p].pc = "done" /\ inflight[q].pc = "done"
    /\ inflight[p].posted_at # 0
    /\ inflight[p].posted_at < inflight[q].posted_at
    /\ inflight[q].marked_at < inflight[p].marked_at
    /\ inflight[p].conclusion = "failure"
    /\ inflight[q].conclusion = "success"
    /\ LatestConclusion(check_runs) = "failure"

\* ------------------------------------------------------------------------
\* C18  Success refers to the newest Challenge under interleaving: when a
\* generate invocation and a reply invocation overlap, a reply that emits
\* the success marker was verified against the newest quiz comment of the
\* history; a reply that read the history before a new Challenge was posted
\* never leaves a success marker on top of that new, unanswered Challenge.
\* ------------------------------------------------------------------------
SuccessOnNewestChallenge ==
  [][\A p \in 1..Len(inflight) :
       (inflight[p].mode = "verify" /\ inflight[p].conclusion = "success" /\ MarkStep(p))
       => NewestQuiz(comments) = inflight[p].quiz]_vars

\* ------------------------------------------------------------------------
\* The gate when the question generator may name any answer: the handlers of
\* Spec, driven by responses whose correct_answer is a label or is not, and
\* by replies with each of the three labels
\* ------------------------------------------------------------------------
AnyAnswers == {<<"A">>, <<"c">>, <<"D">>}

AnyAnswerResponses ==
  {generate_question(ApiContent(JsonDumps(Question(a)))) : a \in AnyAnswers}

LabelReplies == {<<"/answer", " ">> \o label : label \in Labels}

NextAnswerable ==
  \/ \E files \in RaceDiffs : \E q_data \in AnyAnswerResponses :
       run_generate_mode(files, q_data)
  \/ run_verify_mode
  \/ \E body \in LabelReplies : PostUserComment(body)

SpecAnswerable == Init /\ [][NextAnswerable]_vars

\* ------------------------------------------------------------------------
\* C19  Every posted Challenge is answerable: for every Challenge that
\* generate posts, some label of A, B, C is verified as correct, so VERIFIED
\* is reachable from PENDING; generate never posts a commitment to a value
\* outside the three labels.
\* ------------------------------------------------------------------------
EveryChallengeAnswerable ==
  \A k \in 1..Len(minted) :
    \E label \in Labels : Commits(MetaAt(comments, minted[k].at), label)

\* ------------------------------------------------------------------------
\* The gate while commits are pushed: the handlers of Spec and Push
\* ------------------------------------------------------------------------
NextPush ==
  \/ \E files \in RaceDiffs : \E q_data \in RaceResponses :
       run_generate_mode(files, q_data)
  \/ run_verify_mode
  \/ \E body \in LabelReplies : PostUserComment(body)
  \/ Push

SpecPush == Init /\ [][NextPush]_vars

\* ------------------------------------------------------------------------
\* C20  Success is bound to the challenged revision: a success marker is
\* attached to commit c only if the Challenge that the reply was verified
\* against was generated while c was the head of the pull request, so that
\* an action_required marker for c precedes it; a correct reply to a
\* Challenge of an earlier revision does not mark a later revision.
\* ------------------------------------------------------------------------
SuccessBoundToChallengedRevision ==
  (outcome.mode = "verify" /\ outcome.marked = 1
     /\ LatestConclusion(check_runs) = "success")
  => /\ \E k \in 1..Len(minted) :
          /\ minted[k].at = outcome.quiz
          /\ minted[k].head_sha = Latest(check_runs).head_sha
     /\ \E j \in 1..(Len(check_runs) - 1) :
          /\ check_runs[j].conclusion = "action_required"
          /\ check_runs[j].head_sha = Latest(check_runs).head_sha

====
